---- MODULE Spec2Model ----
(***************************************************************************)
(* Model of package dgutil: the Bot type (lazy session construction under  *)
(* sync.Once, Bot.Run with its guild-join handler, the deferred teardown   *)
(* and the deferred Close) and the AddHandler wrapper.                     *)
(*                                                                         *)
(* Tasks: the goroutine that calls Bot.Run ("main"), goroutines of the     *)
(* embedding program that call Bot.Session, and one goroutine per          *)
(* delivered event and handler, started by the session's dispatcher.       *)
(***************************************************************************)
EXTENDS Integers, Sequences, FiniteSets, TLC

\* ------------------------------------------------------------------ bounds
MaxEvents  == 2   \* guild-join events delivered during one run
MaxCmds    == 2   \* length of the longest Bot.Commands sequence
MaxCallers == 1   \* goroutines calling Bot.Session besides Run
MaxUserHandlers == 3   \* handlers the embedding program installs
MaxUserEvents   == 2   \* events delivered to those handlers

Guilds  == {"G1", "G2"}
AllCmds == <<"ping", "help", "about">>
Events  == 1..MaxEvents
Callers == 1..MaxCallers
UserHandlers == 1..MaxUserHandlers
UserEvents   == 1..MaxUserEvents
Main    == 0
Tasks   == {Main} \cup Callers
NoOwner == -1

\* Values of $DISCORD_TOKEN: unset, set to "", set to " x" (padded).
EnvValues ==
  { [set |-> FALSE, val |-> <<>>],
    [set |-> TRUE,  val |-> <<>>],
    [set |-> TRUE,  val |-> <<" ", "x">>] }

\* Values of Bot.Commands: the zero value (nil) or a sequence.
CommandValues ==
  { [isNil |-> TRUE, items |-> <<>>] } \cup
  { [isNil |-> FALSE, items |-> SubSeq(AllCmds, 1, n)] : n \in 0..MaxCmds }

NilSession == [valid |-> FALSE, token |-> <<>>]
NoReg      == [id |-> 0, guild |-> "", name |-> ""]
BotUser    == "U"

VARIABLES
  env,          \* the process environment's DISCORD_TOKEN
  Commands,     \* Bot.Commands
  once,         \* Bot.once: [done, m] (done flag and the mutex owner)
  session,      \* Bot.session
  err,          \* Bot.err
  initRuns,     \* executions of the function passed to once.Do
  observed,     \* (session, err) pairs read by callers after init returned
  pc,           \* position of each task: Run (Main) and the Session callers
  result,       \* what Run returned
  cancelled,    \* ctx.Done() is closed
  handlers,     \* handlers installed on the session by Run
  stateUser,    \* dg.State.User.ID ("" while State.User is nil)
  stateR,       \* tasks holding dg.State's read lock (Main or an event)
  connOpen,     \* the connection is open
  openCalls,    \* calls of dg.Open
  closeCalls,   \* calls of dg.Close
  teardownRuns, \* executions of the deferred teardown function
  tdUser,       \* userID of the teardown function
  tdRange,      \* the slice the teardown loop ranges over
  tdIdx,        \* index of the teardown loop
  registered,   \* the ledger
  registeredm,  \* owner of the ledger mutex
  evCount,      \* guild-join events delivered so far
  hpc,          \* position of each guild-join handler invocation
  hguild,       \* g.ID of each invocation
  huser,        \* userID of each invocation
  hidx,         \* position of each invocation in bot.Commands
  hreg,         \* reg of each invocation
  nextId,       \* next identifier the platform hands out
  createLog,    \* remote create calls, in order
  deleteLog,    \* remote delete calls, in order
  wrapped,      \* wrappers installed on the session through AddHandler
  uevCount,     \* events delivered to the wrappers so far
  upc,          \* position of each wrapper invocation
  uctx,         \* the context each wrapper invocation derived for its callback
  crashed       \* the process died of an unrecovered panic

\* The Setup variant (src/dgutil.go): Run(ctx, setup) and Setup.RegisterCommands.
VARIABLES
  spc,          \* position of Run
  sresult,      \* what Run returned
  serr,         \* Run's err after setup(&s)
  sdgOpen,      \* the session's connection is open
  sdgGuilds,    \* dg.State.Guilds
  sdgCloses,    \* calls of dg.Close
  scmds,        \* Setup.cmds
  sgi,          \* RegisterCommands: index into dg.State.Guilds
  sci,          \* RegisterCommands: index into commands
  sdefers,      \* Run's stack of deferred calls, the last pushed at the end
  sCreateLog,   \* ApplicationCommandCreate calls issued, in order
  sDeleteLog,   \* ApplicationCommandDelete calls issued, in order
  sNextId       \* next id the platform assigns

sVars == << spc, sresult, serr, sdgOpen, sdgGuilds, sdgCloses, scmds, sgi, sci,
            sdefers, sCreateLog, sDeleteLog, sNextId >>

vars == << sVars, env, Commands, once, session, err, initRuns, observed, pc,
           result, cancelled, handlers, stateUser, connOpen, openCalls,
           closeCalls, teardownRuns, tdUser, tdRange, tdIdx, registered,
           registeredm,
           evCount, hpc, hguild, huser, hidx, hreg, nextId, createLog,
           deleteLog, wrapped, uevCount, upc, uctx, stateR, crashed >>

initVars == << once, session, err, initRuns >>
runVars  == << result, handlers, stateUser, connOpen, openCalls,
               closeCalls, teardownRuns, tdUser, tdRange, tdIdx >>
hVars    == << evCount, hpc, hguild, huser, hidx, hreg >>
logVars  == << nextId, createLog, deleteLog >>
uVars    == << wrapped, uevCount, upc, uctx >>

\* ----------------------------------------------------------- pure helpers

\* strings.TrimSpace
RECURSIVE TrimLeft(_)
TrimLeft(s) == IF s # <<>> /\ Head(s) = " " THEN TrimLeft(Tail(s)) ELSE s

RECURSIVE TrimRight(_)
TrimRight(s) ==
  IF s # <<>> /\ s[Len(s)] = " " THEN TrimRight(SubSeq(s, 1, Len(s) - 1)) ELSE s

TrimSpace(s) == TrimRight(TrimLeft(s))

\* os.LookupEnv("DISCORD_TOKEN"): (token, ok)
LookupEnv_EmptyIsUnset(e) == [token |-> e.val, ok |-> e.set /\ e.val # <<>>]

LookupEnv(e) == [token |-> e.val, ok |-> e.set]

\* discordgo.New("Bot " + strings.TrimSpace(token))
NewSession(token) ==
  [valid |-> TRUE, token |-> <<"B", "o", "t", " ">> \o TrimSpace(token)]

Init ==
  /\ env \in EnvValues
  /\ Commands \in CommandValues
  /\ once = [done |-> FALSE, m |-> NoOwner]
  /\ session = NilSession
  /\ err = "nil"
  /\ initRuns = 0
  /\ observed = {}
  /\ pc = [t \in Tasks |-> IF t = Main THEN "once" ELSE "idle"]
  /\ result = "none"
  /\ cancelled = FALSE
  /\ handlers = {}
  /\ stateUser = ""
  /\ stateR = {}
  /\ connOpen = FALSE
  /\ openCalls = 0
  /\ closeCalls = 0
  /\ teardownRuns = 0
  /\ tdUser = ""
  /\ tdRange = <<>>
  /\ tdIdx = 0
  /\ registered = <<>>
  /\ registeredm = NoOwner
  /\ evCount = 0
  /\ hpc = [e \in Events |-> "idle"]
  /\ hguild = [e \in Events |-> ""]
  /\ huser = [e \in Events |-> ""]
  /\ hidx = [e \in Events |-> 0]
  /\ hreg = [e \in Events |-> NoReg]
  /\ nextId = 1
  /\ createLog = <<>>
  /\ deleteLog = <<>>
  /\ wrapped = {}
  /\ uevCount = 0
  /\ upc = [v \in UserEvents |-> [u \in UserHandlers |-> "none"]]
  /\ uctx = [v \in UserEvents |-> [u \in UserHandlers |-> "none"]]
  /\ crashed = FALSE
  /\ spc = "lookup"
  /\ sresult = "none"
  /\ serr = "nil"
  /\ sdgOpen = FALSE
  /\ sdgGuilds = <<>>
  /\ sdgCloses = 0
  /\ scmds = <<>>
  /\ sgi = 0
  /\ sci = 0
  /\ sdefers = <<>>
  /\ sCreateLog = <<>>
  /\ sDeleteLog = <<>>
  /\ sNextId = 1

\* ------------------------------------------------- Bot.init (sync.Once.Do)

\* once.Do returns without running f: f has completed.
OncePass_NoWait(o) == o.done \/ o.m # NoOwner

OncePass(o) == o.done

\* once.Do runs f: f has not run and no other task is inside Do.
OnceRun(o) == ~o.done /\ o.m = NoOwner

\* Where a task continues when bot.init() returns.
AfterInit(t) == IF t = Main THEN "check" ELSE "ret"

\* bot.init(): once.Do, entered by Run (line 64) or Session (line 53).
OnceDo(t) ==
  /\ ~crashed
  /\ pc[t] = "once"
  /\ \/ /\ OncePass(once)
        /\ pc' = [pc EXCEPT ![t] = AfterInit(t)]
        /\ UNCHANGED << once, initRuns >>
     \/ /\ ~OncePass(once)
        /\ OnceRun(once)
        /\ once' = [once EXCEPT !.m = t]
        /\ initRuns' = initRuns + 1
        /\ pc' = [pc EXCEPT ![t] = "lookup"]
  /\ UNCHANGED << sVars, env, Commands, stateR, uVars, session, err, observed, cancelled, runVars,
                  registered, registeredm, hVars, logVars, crashed >>

\* The token lookup of the function passed to once.Do.
InitLookup(t) ==
  /\ ~crashed
  /\ pc[t] = "lookup"
  /\ IF LookupEnv(env).ok
       THEN /\ pc' = [pc EXCEPT ![t] = "new"]
            /\ UNCHANGED << once, err >>
       ELSE /\ err' = "ErrNoToken"
            /\ once' = [done |-> TRUE, m |-> NoOwner]
            /\ pc' = [pc EXCEPT ![t] = AfterInit(t)]
  /\ UNCHANGED << sVars, env, Commands, stateR, uVars, session, initRuns, observed, cancelled,
                  runVars, registered, registeredm, hVars, logVars, crashed >>

\* The session construction of the function passed to once.Do.
InitNew(t) ==
  /\ ~crashed
  /\ pc[t] = "new"
  /\ \/ /\ session' = NewSession(LookupEnv(env).token)
        /\ UNCHANGED err
     \/ /\ err' = "ErrCreateSession"
        /\ UNCHANGED session
  /\ once' = [done |-> TRUE, m |-> NoOwner]
  /\ pc' = [pc EXCEPT ![t] = AfterInit(t)]
  /\ UNCHANGED << sVars, env, Commands, stateR, uVars, initRuns, observed, cancelled, runVars,
                  registered, registeredm, hVars, logVars, crashed >>

\* ------------------------------------------------------------ Bot.Session

CallSession(c) ==
  /\ ~crashed
  /\ pc[c] \in {"idle", "have"}
  /\ pc' = [pc EXCEPT ![c] = "once"]
  /\ UNCHANGED << sVars, env, Commands, stateR, uVars, initVars, observed, cancelled, runVars,
                  registered, registeredm, hVars, logVars, crashed >>

SessionReturn(c) ==
  /\ ~crashed
  /\ pc[c] = "ret"
  /\ observed' = observed \cup { << session, err >> }
  /\ pc' = [pc EXCEPT ![c] = IF err = "nil" THEN "have" ELSE "idle"]
  /\ UNCHANGED << sVars, env, Commands, stateR, uVars, initVars, cancelled, runVars, registered,
                  registeredm, hVars, logVars, crashed >>

\* ---------------------------------------------------------------- Bot.Run

\* The steps of Run between the error check and the wait, in program order:
\* the readiness handler (line 70), the guild-join handler (line 76), dg.Open
\* (line 101).
SetupOrder_OpenFirst == << "addReady", "open", "addGuild" >>

SetupOrder == << "addReady", "addGuild", "open" >>

SetupStage(k) == IF k > Len(SetupOrder) THEN "wait" ELSE SetupOrder[k]

AfterSetup(name) ==
  SetupStage(1 + CHOOSE k \in 1..Len(SetupOrder) : SetupOrder[k] = name)

\* if bot.err != nil { return bot.err }
RunProceeds_Always(e) == TRUE

RunProceeds(e) == e = "nil"

\* Run, lines 65-68.
RunCheck ==
  /\ ~crashed
  /\ pc[Main] = "check"
  /\ observed' = observed \cup { << session, err >> }
  /\ IF RunProceeds(err)
       THEN /\ pc' = [pc EXCEPT ![Main] = SetupStage(1)]
            /\ UNCHANGED result
       ELSE /\ pc' = [pc EXCEPT ![Main] = "returned"]
            /\ result' = err
  /\ UNCHANGED << sVars, env, Commands, stateR, uVars, initVars, cancelled, handlers, stateUser,
                  connOpen, openCalls, closeCalls, teardownRuns, tdUser,
                  tdRange, tdIdx, registered, registeredm, hVars, logVars,
                  crashed >>

\* Run, lines 70-72: the readiness handler is installed.
AddReadyHandler ==
  /\ ~crashed
  /\ pc[Main] = "addReady"
  /\ handlers' = handlers \cup {"Ready"}
  /\ pc' = [pc EXCEPT ![Main] = AfterSetup("addReady")]
  /\ UNCHANGED << sVars, env, Commands, stateR, uVars, initVars, observed, result, cancelled,
                  stateUser, connOpen, openCalls, closeCalls, teardownRuns,
                  tdUser, tdRange, tdIdx, registered, registeredm, hVars,
                  logVars, crashed >>

\* Run, lines 74-99: the guild-join handler is installed.
AddGuildHandler ==
  /\ ~crashed
  /\ pc[Main] = "addGuild"
  /\ handlers' = handlers \cup {"GuildCreate"}
  /\ pc' = [pc EXCEPT ![Main] = AfterSetup("addGuild")]
  /\ UNCHANGED << sVars, env, Commands, stateR, uVars, initVars, observed, result, cancelled,
                  stateUser, connOpen, openCalls, closeCalls, teardownRuns,
                  tdUser, tdRange, tdIdx, registered, registeredm, hVars,
                  logVars, crashed >>

\* Lines 102-104: where Run goes when dg.Open() returned an error; the Close
\* of line 105 is deferred only after this check.
AfterOpenError_CloseDeferred == "close"

AfterOpenError == "returned"

\* Run, lines 101-104: dg.Open() fails or succeeds; a successful Open has
\* processed the readiness event, which sets dg.State.User.
Open ==
  /\ ~crashed
  /\ pc[Main] = "open"
  /\ openCalls' = openCalls + 1
  /\ \/ /\ connOpen' = TRUE
        /\ stateUser' = BotUser
        /\ pc' = [pc EXCEPT ![Main] = AfterSetup("open")]
        /\ UNCHANGED result
     \/ /\ result' = "ErrOpen"
        /\ pc' = [pc EXCEPT ![Main] = AfterOpenError]
        /\ UNCHANGED << connOpen, stateUser >>
  /\ UNCHANGED << sVars, env, Commands, stateR, uVars, initVars, observed, cancelled, handlers,
                  closeCalls, teardownRuns, tdUser, tdRange, tdIdx,
                  registered, registeredm, hVars, logVars, crashed >>

\* The deferred calls of Run in the order they run (last deferred first):
\* the teardown function (line 107), then dg.Close (line 105).
DeferOrder_CloseFirst == << "close", "teardown" >>

DeferOrder == << "teardown", "close" >>

StageOf(k) ==
  IF k > Len(DeferOrder) THEN "returned"
  ELSE IF DeferOrder[k] = "teardown" THEN "tdUser" ELSE "close"

AfterStage(name) ==
  StageOf(1 + CHOOSE k \in 1..Len(DeferOrder) : DeferOrder[k] = name)

\* <-ctx.Done() returns.
WaitOver_NoWait(c) == TRUE

WaitOver(c) == c

\* Run, lines 125-126: blocked until the context is cancelled; return nil
\* then runs the deferred calls.
Wait ==
  /\ ~crashed
  /\ pc[Main] = "wait"
  /\ WaitOver(cancelled)
  /\ pc' = [pc EXCEPT ![Main] = StageOf(1)]
  /\ UNCHANGED << sVars, env, Commands, stateR, uVars, initVars, observed, result, cancelled,
                  handlers, stateUser, connOpen, openCalls, closeCalls,
                  teardownRuns, tdUser, tdRange, tdIdx, registered,
                  registeredm, hVars, logVars, crashed >>

\* dg.State.RUnlock() by task t: t no longer holds the read lock.
StateRelease_Forgotten(s, t) == s

StateRelease(s, t) == s \ {t}

\* Teardown, lines 108-109: dg.State.RLock() and the read of
\* dg.State.User.ID into userID.
TdUser ==
  /\ ~crashed
  /\ pc[Main] = "tdUser"
  /\ teardownRuns' = teardownRuns + 1
  /\ stateR' = stateR \cup {Main}
  /\ tdUser' = stateUser
  /\ pc' = [pc EXCEPT ![Main] = "tdRUnlock"]
  /\ UNCHANGED << sVars, env, Commands, uVars, initVars, observed, result, cancelled,
                  handlers, stateUser, connOpen, openCalls, closeCalls,
                  tdRange, tdIdx, registered, registeredm, hVars, logVars,
                  crashed >>

\* Teardown, line 110: dg.State.RUnlock().
TdRUnlock ==
  /\ ~crashed
  /\ pc[Main] = "tdRUnlock"
  /\ stateR' = StateRelease(stateR, Main)
  /\ pc' = [pc EXCEPT ![Main] = "tdLock"]
  /\ UNCHANGED << sVars, env, Commands, uVars, initVars, observed, result, cancelled,
                  handlers, stateUser, connOpen, openCalls, closeCalls,
                  teardownRuns, tdUser, tdRange, tdIdx, registered,
                  registeredm, hVars, logVars,
                  crashed >>

\* registeredm.Lock() returns: no task holds the mutex.
MutexFree_Always(m) == TRUE

MutexFree(m) == m = NoOwner

\* Teardown, lines 112-114: the ledger mutex is taken and the loop starts.
TdLock ==
  /\ ~crashed
  /\ pc[Main] = "tdLock"
  /\ MutexFree(registeredm)
  /\ registeredm' = Main
  /\ tdRange' = registered
  /\ tdIdx' = 1
  /\ pc' = [pc EXCEPT ![Main] = "tdLoop"]
  /\ UNCHANGED << sVars, env, Commands, stateR, uVars, initVars, observed, result, cancelled,
                  handlers, stateUser, connOpen, openCalls, closeCalls,
                  teardownRuns, tdUser, registered, hVars, logVars, crashed >>

\* The index the teardown loop continues with after a delete call.
TdNext_StopOnError(i, ok) == IF ok THEN i + 1 ELSE Len(tdRange) + 1

TdNext(i, ok) == i + 1

\* The arguments of dg.ApplicationCommandDelete(userID, cmd.GuildID, cmd.ID)
DeleteCall(user, cmd, ok) ==
  [user |-> user, guild |-> cmd.guild, id |-> cmd.id, ok |-> ok]

\* Teardown, lines 114-122: one delete call; a failure is logged.
TdDelete ==
  /\ ~crashed
  /\ pc[Main] = "tdLoop"
  /\ tdIdx <= Len(tdRange)
  /\ \E ok \in BOOLEAN :
        /\ deleteLog' = Append(deleteLog, DeleteCall(tdUser, tdRange[tdIdx], ok))
        /\ tdIdx' = TdNext(tdIdx, ok)
  /\ UNCHANGED << sVars, env, Commands, stateR, uVars, initVars, observed, pc, result, cancelled,
                  handlers, stateUser, connOpen, openCalls, closeCalls,
                  teardownRuns, tdUser, tdRange, registered, registeredm,
                  hVars, nextId, createLog, crashed >>

\* Teardown, line 113 (deferred): the loop is over, the mutex is released.
TdUnlock ==
  /\ ~crashed
  /\ pc[Main] = "tdLoop"
  /\ tdIdx > Len(tdRange)
  /\ registeredm' = NoOwner
  /\ pc' = [pc EXCEPT ![Main] = AfterStage("teardown")]
  /\ result' = IF AfterStage("teardown") = "returned" THEN "nil" ELSE result
  /\ UNCHANGED << sVars, env, Commands, stateR, uVars, initVars, observed, cancelled, handlers,
                  stateUser, connOpen, openCalls, closeCalls, teardownRuns,
                  tdUser, tdRange, tdIdx, registered, hVars, logVars,
                  crashed >>

\* Run, line 105 (deferred): dg.Close().
Close ==
  /\ ~crashed
  /\ pc[Main] = "close"
  /\ closeCalls' = closeCalls + 1
  /\ connOpen' = FALSE
  /\ pc' = [pc EXCEPT ![Main] = AfterStage("close")]
  /\ result' = IF AfterStage("close") = "returned" THEN "nil" ELSE result
  /\ UNCHANGED << sVars, env, Commands, stateR, uVars, initVars, observed, cancelled, handlers,
                  stateUser, openCalls, teardownRuns, tdUser, tdRange, tdIdx,
                  registered, registeredm, hVars, logVars, crashed >>

\* The caller's context is cancelled; the cancellation reaches the contexts
\* derived from it that are still live.
Cancel ==
  /\ ~crashed
  /\ ~cancelled
  /\ cancelled' = TRUE
  /\ uctx' = [v \in UserEvents |-> [u \in UserHandlers |->
                IF uctx[v][u] = "live" THEN "cancelled" ELSE uctx[v][u]]]
  /\ UNCHANGED << sVars, env, Commands, stateR, wrapped, uevCount, upc, initVars, observed, pc, runVars, registered,
                  registeredm, hVars, logVars, crashed >>

\* ------------------------------------- the guild-join handler (lines 76-99)

\* The session's dispatcher starts one goroutine per event for the handler;
\* events arrive while the connection is open.
Deliver(g) ==
  /\ ~crashed
  /\ connOpen
  /\ "GuildCreate" \in handlers
  /\ evCount < MaxEvents
  /\ evCount' = evCount + 1
  /\ hpc' = [hpc EXCEPT ![evCount + 1] = "start"]
  /\ hguild' = [hguild EXCEPT ![evCount + 1] = g]
  /\ UNCHANGED << sVars, env, Commands, stateR, uVars, initVars, observed, pc, cancelled, runVars,
                  registered, registeredm, huser, hidx, hreg, logVars,
                  crashed >>

\* Lines 80-81: dg.State.RLock() and the read of dg.State.User.ID into
\* userID.
HStart(e) ==
  /\ ~crashed
  /\ hpc[e] = "start"
  /\ stateR' = stateR \cup {e}
  /\ huser' = [huser EXCEPT ![e] = stateUser]
  /\ hpc' = [hpc EXCEPT ![e] = "rUnlock"]
  /\ UNCHANGED << sVars, env, Commands, uVars, initVars, observed, pc, cancelled, runVars,
                  registered, registeredm, evCount, hguild, hidx, hreg,
                  logVars, crashed >>

\* Line 82: dg.State.RUnlock().
HRUnlock(e) ==
  /\ ~crashed
  /\ hpc[e] = "rUnlock"
  /\ stateR' = StateRelease(stateR, e)
  /\ hpc' = [hpc EXCEPT ![e] = "lock"]
  /\ UNCHANGED << sVars, env, Commands, uVars, initVars, observed, pc, cancelled, runVars,
                  registered, registeredm, evCount, hguild, huser, hidx, hreg,
                  logVars, crashed >>

\* Line 84: registeredm.Lock().
HLock(e) ==
  /\ ~crashed
  /\ hpc[e] = "lock"
  /\ MutexFree(registeredm)
  /\ registeredm' = e
  /\ hpc' = [hpc EXCEPT ![e] = "range"]
  /\ UNCHANGED << sVars, env, Commands, stateR, uVars, initVars, observed, pc, cancelled, runVars,
                  registered, evCount, hguild, huser, hidx, hreg, logVars,
                  crashed >>

\* The loop head of line 87 at index i of bot.Commands.
LoopHead(i) == IF i > Len(Commands.items) THEN "unlock" ELSE "create"

\* Line 87: range over bot.Commands; calling a nil iter.Seq panics. The
\* deferred Unlock of line 85 runs while the panic unwinds; the handler was
\* installed with dg.AddHandler (line 76), nothing recovers the panic, and a
\* panic that leaves a goroutine ends the process.
HRange(e) ==
  /\ ~crashed
  /\ hpc[e] = "range"
  /\ IF Commands.isNil
       THEN /\ crashed' = TRUE
            /\ hpc' = [hpc EXCEPT ![e] = "panicked"]
            /\ registeredm' = NoOwner
            /\ UNCHANGED hidx
       ELSE /\ hidx' = [hidx EXCEPT ![e] = 1]
            /\ hpc' = [hpc EXCEPT ![e] = LoopHead(1)]
            /\ UNCHANGED << crashed, registeredm >>
  /\ UNCHANGED << sVars, env, Commands, stateR, uVars, initVars, observed, pc, cancelled, runVars,
                  registered, evCount, hguild, huser, hreg, logVars >>

\* Lines 91-94: what the loop body does with the outcome of the create call.
AfterCreate_Abort(ok) == IF ok THEN "append" ELSE "abort"

AfterCreate(ok) == IF ok THEN "append" ELSE "continue"

\* Line 90: dg.ApplicationCommandCreate(userID, g.ID, cmd); the platform
\* answers with the command and a fresh identifier, or the call fails.
HCreate(e) ==
  /\ ~crashed
  /\ hpc[e] = "create"
  /\ \E ok \in BOOLEAN :
       LET cmd  == Commands.items[hidx[e]]
           call == [user |-> huser[e], guild |-> hguild[e], name |-> cmd,
                    ok |-> ok, id |-> IF ok THEN nextId ELSE 0, inv |-> e]
           then == AfterCreate(ok)
       IN  /\ createLog' = Append(createLog, call)
           /\ nextId' = IF ok THEN nextId + 1 ELSE nextId
           /\ hreg' = [hreg EXCEPT ![e] =
                         IF ok THEN [id |-> nextId, guild |-> hguild[e],
                                     name |-> cmd]
                               ELSE NoReg]
           /\ hidx' = [hidx EXCEPT ![e] =
                         IF then = "continue" THEN hidx[e] + 1 ELSE hidx[e]]
           /\ hpc' = [hpc EXCEPT ![e] =
                         CASE then = "append"   -> "append"
                           [] then = "continue" -> LoopHead(hidx[e] + 1)
                           [] OTHER             -> "unlock"]
  /\ UNCHANGED << sVars, env, Commands, stateR, uVars, initVars, observed, pc, cancelled, runVars,
                  registered, registeredm, evCount, hguild, huser, deleteLog,
                  crashed >>

\* registered = append(registered, reg)
AppendReg_Overwrite(l, r) == << r >>

AppendReg(l, r) == Append(l, r)

\* Lines 96-97.
HAppend(e) ==
  /\ ~crashed
  /\ hpc[e] = "append"
  /\ registered' = AppendReg(registered, hreg[e])
  /\ hidx' = [hidx EXCEPT ![e] = hidx[e] + 1]
  /\ hpc' = [hpc EXCEPT ![e] = LoopHead(hidx[e] + 1)]
  /\ UNCHANGED << sVars, env, Commands, stateR, uVars, initVars, observed, pc, cancelled, runVars,
                  registeredm, evCount, hguild, huser, hreg, logVars,
                  crashed >>

\* Line 85 (deferred): registeredm.Unlock(); the handler returns.
HUnlock(e) ==
  /\ ~crashed
  /\ hpc[e] = "unlock"
  /\ registeredm' = NoOwner
  /\ hpc' = [hpc EXCEPT ![e] = "done"]
  /\ UNCHANGED << sVars, env, Commands, stateR, uVars, initVars, observed, pc, cancelled, runVars,
                  registered, evCount, hguild, huser, hidx, hreg, logVars,
                  crashed >>

\* ------------------------------------------- AddHandler (lines 133-148)

\* The embedding program, holding the session it got from Bot.Session, calls
\* AddHandler(ctx, dg, h): dg.AddHandler installs the wrapper.
AddHandlerCall(c) ==
  /\ ~crashed
  /\ pc[c] = "have"
  /\ Cardinality(wrapped) < MaxUserHandlers
  /\ wrapped' = wrapped \cup { Cardinality(wrapped) + 1 }
  /\ UNCHANGED << sVars, env, Commands, stateR, initVars, observed, pc, cancelled, runVars,
                  registered, registeredm, hVars, logVars, uevCount, upc,
                  uctx, crashed >>

\* An event of the wrappers' type arrives while the connection is open: the
\* dispatcher starts one goroutine per installed wrapper.
DeliverUser ==
  /\ ~crashed
  /\ connOpen
  /\ wrapped # {}
  /\ uevCount < MaxUserEvents
  /\ uevCount' = uevCount + 1
  /\ upc' = [upc EXCEPT ![uevCount + 1] =
               [u \in UserHandlers |-> IF u \in wrapped THEN "start" ELSE "none"]]
  /\ UNCHANGED << sVars, env, Commands, stateR, initVars, observed, pc, cancelled, runVars,
                  registered, registeredm, hVars, logVars, wrapped, uctx,
                  crashed >>

\* Line 143: context.WithCancel(ctx), ctx the context given to AddHandler; a
\* context derived from a cancelled one is cancelled from the start.
WithCancel(parentCancelled) == IF parentCancelled THEN "cancelled" ELSE "live"

\* Lines 143-146: the wrapper derives its context and calls h, which returns
\* or panics.
UCall(v, u) ==
  /\ ~crashed
  /\ upc[v][u] = "start"
  /\ uctx' = [uctx EXCEPT ![v][u] = WithCancel(cancelled)]
  /\ \E outcome \in {"returned", "panicking"} :
        upc' = [upc EXCEPT ![v][u] = outcome]
  /\ UNCHANGED << sVars, env, Commands, stateR, initVars, observed, pc, cancelled, runVars,
                  registered, registeredm, hVars, logVars, wrapped, uevCount,
                  crashed >>

\* Lines 135-141: the wrapper's first deferred function calls recover().
WrapperRecovers_None == FALSE

WrapperRecovers == TRUE

\* Line 144: defer cancel(), applied to the derived context c.
DeferredCancel_Missing(c) == c

DeferredCancel(c) == "cancelled"

\* The wrapper's deferred calls run: cancel (line 144), then the recovering
\* function (lines 135-141); a panic nobody recovers ends the process.
UDefers(v, u) ==
  /\ ~crashed
  /\ upc[v][u] \in {"returned", "panicking"}
  /\ uctx' = [uctx EXCEPT ![v][u] = DeferredCancel(uctx[v][u])]
  /\ IF upc[v][u] = "returned"
       THEN /\ upc' = [upc EXCEPT ![v][u] = "done"]
            /\ UNCHANGED crashed
       ELSE IF WrapperRecovers
              THEN /\ upc' = [upc EXCEPT ![v][u] = "recovered"]
                   /\ UNCHANGED crashed
              ELSE /\ upc' = [upc EXCEPT ![v][u] = "propagated"]
                   /\ crashed' = TRUE
  /\ UNCHANGED << sVars, env, Commands, stateR, initVars, observed, pc, cancelled, runVars,
                  registered, registeredm, hVars, logVars, wrapped, uevCount >>

\* ------------------------------------------------------------ the system

Next ==
  \/ \E t \in Tasks : OnceDo(t)
  \/ \E t \in Tasks : InitLookup(t)
  \/ \E t \in Tasks : InitNew(t)
  \/ \E c \in Callers : CallSession(c)
  \/ \E c \in Callers : SessionReturn(c)
  \/ RunCheck
  \/ AddReadyHandler
  \/ AddGuildHandler
  \/ Open
  \/ Wait
  \/ TdUser
  \/ TdRUnlock
  \/ TdLock
  \/ TdDelete
  \/ TdUnlock
  \/ Close
  \/ Cancel
  \/ \E g \in Guilds : Deliver(g)
  \/ \E e \in Events : HStart(e)
  \/ \E e \in Events : HRUnlock(e)
  \/ \E e \in Events : HLock(e)
  \/ \E e \in Events : HRange(e)
  \/ \E e \in Events : HCreate(e)
  \/ \E e \in Events : HAppend(e)
  \/ \E e \in Events : HUnlock(e)

\* Run with guild-join events arriving while the connection is open.
Spec == Init /\ [][Next]_vars

\* Every call of Run's return path and of a running handler returns, and
\* registeredm.Lock() is fair: a task that finds the mutex free again and
\* again gets it. Cancellation and the arrival of events are up to the
\* environment.
Fairness ==
  /\ WF_vars(Wait)
  /\ WF_vars(TdUser)
  /\ WF_vars(TdRUnlock)
  /\ SF_vars(TdLock)
  /\ WF_vars(TdDelete)
  /\ WF_vars(TdUnlock)
  /\ WF_vars(Close)
  /\ \A e \in Events :
        /\ WF_vars(HStart(e))
        /\ WF_vars(HRUnlock(e))
        /\ SF_vars(HLock(e))
        /\ WF_vars(HRange(e))
        /\ WF_vars(HCreate(e))
        /\ WF_vars(HAppend(e))
        /\ WF_vars(HUnlock(e))

SpecLive == Spec /\ Fairness

\* Run with the embedding program installing handlers through AddHandler and
\* events of their type arriving (the bot is in no guild).
NextHandlers ==
  \/ \E t \in Tasks : OnceDo(t)
  \/ \E t \in Tasks : InitLookup(t)
  \/ \E t \in Tasks : InitNew(t)
  \/ \E c \in Callers : CallSession(c)
  \/ \E c \in Callers : SessionReturn(c)
  \/ \E c \in Callers : AddHandlerCall(c)
  \/ RunCheck
  \/ AddReadyHandler
  \/ AddGuildHandler
  \/ Open
  \/ Wait
  \/ TdUser
  \/ TdRUnlock
  \/ TdLock
  \/ TdUnlock
  \/ Close
  \/ Cancel
  \/ DeliverUser
  \/ \E v \in UserEvents, u \in UserHandlers : UCall(v, u)
  \/ \E v \in UserEvents, u \in UserHandlers : UDefers(v, u)

\* No guild-join handler runs here, so Bot.Commands is never read.
InitHandlers == Init /\ Commands = [isNil |-> FALSE, items |-> <<>>]

SpecHandlers == InitHandlers /\ [][NextHandlers]_vars

\* ------------------------------------ the Setup variant (src/dgutil.go)

botVars == << stateR, uVars, initVars, observed, pc, runVars, registered,
              registeredm, hVars, logVars >>

\* Values of dg.State.Guilds once the session is open.
GuildLists == { <<>>, << "G1" >>, << "G1", "G2" >> }

\* Run, lines 69-72: os.LookupEnv.
SLookup ==
  /\ ~crashed
  /\ spc = "lookup"
  /\ IF LookupEnv(env).ok
       THEN /\ spc' = "new"
            /\ UNCHANGED sresult
       ELSE /\ sresult' = "ErrNoToken"
            /\ spc' = "returned"
  /\ UNCHANGED << botVars, env, Commands, cancelled, crashed, serr, sdgOpen,
                  sdgGuilds, sdgCloses, scmds, sgi, sci, sdefers, sCreateLog,
                  sDeleteLog, sNextId >>

\* Run, lines 74-77: discordgo.New.
SNew ==
  /\ ~crashed
  /\ spc = "new"
  /\ \/ /\ spc' = "addReady"
        /\ UNCHANGED sresult
     \/ /\ sresult' = "ErrCreateSession"
        /\ spc' = "returned"
  /\ UNCHANGED << botVars, env, Commands, cancelled, crashed, serr, sdgOpen,
                  sdgGuilds, sdgCloses, scmds, sgi, sci, sdefers, sCreateLog,
                  sDeleteLog, sNextId >>

\* Run, lines 78-80: the Ready handler, which only logs.
SAddReady ==
  /\ ~crashed
  /\ spc = "addReady"
  /\ spc' = "open"
  /\ UNCHANGED << botVars, env, Commands, cancelled, crashed, sresult, serr,
                  sdgOpen, sdgGuilds, sdgCloses, scmds, sgi, sci, sdefers,
                  sCreateLog, sDeleteLog, sNextId >>

\* Run, lines 82-91: dg.Open(); on success dg.Close is deferred and
\* setup(&s) is called, which calls s.RegisterCommands(Commands).
SOpen ==
  /\ ~crashed
  /\ spc = "open"
  /\ \/ /\ sdgOpen' = TRUE
        /\ sdgGuilds' \in GuildLists
        /\ sdefers' = << [kind |-> "close", cmd |-> NoReg] >>
        /\ sgi' = 1
        /\ sci' = 1
        /\ spc' = "reg"
        /\ UNCHANGED sresult
     \/ /\ sresult' = "ErrOpen"
        /\ spc' = "returned"
        /\ UNCHANGED << sdgOpen, sdgGuilds, sdefers, sgi, sci >>
  /\ UNCHANGED << botVars, env, Commands, cancelled, crashed, serr, sdgCloses,
                  scmds, sCreateLog, sDeleteLog, sNextId >>

\* RegisterCommands, lines 35-36 and 47: the two loop heads; ranging over a
\* nil iter.Seq panics, the panic unwinds Run, whose deferred dg.Close runs,
\* and ends the process.
SRegLoop ==
  /\ ~crashed
  /\ spc = "reg"
  /\ CASE sgi > Len(sdgGuilds) ->
            /\ serr' = "nil"
            /\ spc' = "setupDone"
            /\ UNCHANGED << sgi, sci, sdgOpen, sdgCloses, sdefers, crashed >>
       [] sgi <= Len(sdgGuilds) /\ Commands.isNil ->
            /\ crashed' = TRUE
            /\ sdgCloses' = sdgCloses + 1
            /\ sdgOpen' = FALSE
            /\ sdefers' = <<>>
            /\ spc' = "panicked"
            /\ UNCHANGED << sgi, sci, serr >>
       [] sgi <= Len(sdgGuilds) /\ ~Commands.isNil
            /\ sci > Len(Commands.items) ->
            /\ sgi' = sgi + 1
            /\ sci' = 1
            /\ UNCHANGED << spc, serr, sdgOpen, sdgCloses, sdefers, crashed >>
       [] OTHER ->
            /\ spc' = "create"
            /\ UNCHANGED << sgi, sci, serr, sdgOpen, sdgCloses, sdefers,
                            crashed >>
  /\ UNCHANGED << botVars, env, Commands, cancelled, sresult, sdgGuilds, scmds,
                  sCreateLog, sDeleteLog, sNextId >>

\* RegisterCommands, lines 37-44: one create call; the first failure is
\* returned at once, a success is appended to s.cmds.
SRegCreate ==
  /\ ~crashed
  /\ spc = "create"
  /\ \E ok \in BOOLEAN :
       LET name == Commands.items[sci]
           call == [user |-> BotUser, guild |-> sdgGuilds[sgi], name |-> name,
                    ok |-> ok, id |-> IF ok THEN sNextId ELSE 0]
       IN  /\ sCreateLog' = Append(sCreateLog, call)
           /\ IF ok
                THEN /\ scmds' = Append(scmds, [id |-> sNextId,
                                                guild |-> sdgGuilds[sgi],
                                                name |-> name])
                     /\ sNextId' = sNextId + 1
                     /\ sci' = sci + 1
                     /\ spc' = "reg"
                     /\ UNCHANGED serr
                ELSE /\ serr' = "ErrRegister"
                     /\ spc' = "setupDone"
                     /\ UNCHANGED << scmds, sNextId, sci >>
  /\ UNCHANGED << botVars, env, Commands, cancelled, crashed, sresult, sdgOpen,
                  sdgGuilds, sdgCloses, sgi, sdefers, sDeleteLog >>

\* Run, lines 91-94: the error of setup(&s) is returned as it is.
SSetupCheck ==
  /\ ~crashed
  /\ spc = "setupDone"
  /\ IF serr # "nil"
       THEN /\ sresult' = serr
            /\ spc' = "unwind"
       ELSE /\ spc' = "defers"
            /\ UNCHANGED sresult
  /\ UNCHANGED << botVars, env, Commands, cancelled, crashed, serr, sdgOpen,
                  sdgGuilds, sdgCloses, scmds, sgi, sci, sdefers, sCreateLog,
                  sDeleteLog, sNextId >>

\* Run, lines 96-103: one deferred delete per entry of s.cmds.
SDeferDeletes ==
  /\ ~crashed
  /\ spc = "defers"
  /\ sdefers' = sdefers \o
                  [i \in 1..Len(scmds) |-> [kind |-> "delete", cmd |-> scmds[i]]]
  /\ spc' = "wait"
  /\ UNCHANGED << botVars, env, Commands, cancelled, crashed, sresult, serr,
                  sdgOpen, sdgGuilds, sdgCloses, scmds, sgi, sci, sCreateLog,
                  sDeleteLog, sNextId >>

\* Run, lines 105-106: blocked until the context is cancelled; return nil.
SWait ==
  /\ ~crashed
  /\ spc = "wait"
  /\ cancelled
  /\ sresult' = "nil"
  /\ spc' = "unwind"
  /\ UNCHANGED << botVars, env, Commands, cancelled, crashed, serr, sdgOpen,
                  sdgGuilds, sdgCloses, scmds, sgi, sci, sdefers, sCreateLog,
                  sDeleteLog, sNextId >>

\* Where Run is once one deferred call has run and rest are left.
AfterDeferred(rest) == IF rest = <<>> THEN "returned" ELSE "unwind"

\* Lines 97-102, run at return: the deferred delete pushed last; a failure
\* is logged.
SDeferredDelete ==
  /\ ~crashed
  /\ spc = "unwind"
  /\ sdefers # <<>>
  /\ sdefers[Len(sdefers)].kind = "delete"
  /\ \E ok \in BOOLEAN :
       sDeleteLog' = Append(sDeleteLog,
                        DeleteCall(BotUser, sdefers[Len(sdefers)].cmd, ok))
  /\ sdefers' = SubSeq(sdefers, 1, Len(sdefers) - 1)
  /\ spc' = AfterDeferred(sdefers')
  /\ UNCHANGED << botVars, env, Commands, cancelled, crashed, sresult, serr,
                  sdgOpen, sdgGuilds, sdgCloses, scmds, sgi, sci, sCreateLog,
                  sNextId >>

\* Line 86, run at return: the deferred dg.Close().
SDeferredClose ==
  /\ ~crashed
  /\ spc = "unwind"
  /\ sdefers # <<>>
  /\ sdefers[Len(sdefers)].kind = "close"
  /\ sdgCloses' = sdgCloses + 1
  /\ sdgOpen' = FALSE
  /\ sdefers' = SubSeq(sdefers, 1, Len(sdefers) - 1)
  /\ spc' = AfterDeferred(sdefers')
  /\ UNCHANGED << botVars, env, Commands, cancelled, crashed, sresult, serr,
                  sdgGuilds, scmds, sgi, sci, sCreateLog, sDeleteLog,
                  sNextId >>

NextSetup ==
  \/ SLookup
  \/ SNew
  \/ SAddReady
  \/ SOpen
  \/ SRegLoop
  \/ SRegCreate
  \/ SSetupCheck
  \/ SDeferDeletes
  \/ SWait
  \/ SDeferredDelete
  \/ SDeferredClose
  \/ Cancel

\* Run(ctx, setup) of the Setup variant, with a setup function that calls
\* s.RegisterCommands(Commands) and returns its error.
SpecSetup == Init /\ [][NextSetup]_vars

\* ------------------------------------------------------------- properties

OkCreates == SelectSeq(createLog, LAMBDA c : c.ok)

CreatedIds == { createLog[i].id : i \in { j \in 1..Len(createLog) : createLog[j].ok } }

DeleteCount(id) ==
  Cardinality({ i \in 1..Len(deleteLog) : deleteLog[i].id = id })

LedgerCount(id) ==
  Cardinality({ i \in 1..Len(registered) : registered[i].id = id })

CallsOf(e) == SelectSeq(createLog, LAMBDA c : c.inv = e)

AllHandlersDone == \A e \in Events : hpc[e] \in {"idle", "done"}

OpenSucceeded == stateUser # ""

\* C1 (as claimed): once Run has returned and every handler invocation has
\* finished, every successfully created command has exactly one delete
\* attempt and nothing else was deleted.
C1_EveryCreateDeletedOnce ==
  (pc[Main] = "returned" /\ AllHandlersDone) =>
     /\ \A id \in CreatedIds : DeleteCount(id) = 1
     /\ Len(deleteLog) = Cardinality(CreatedIds)

\* C2: teardown runs at most once, and once for a Run that opened the
\* connection; it ranges over the ledger as it is when the mutex is taken and
\* issues one delete call (bot user, entry's guild, entry's id) per entry, in
\* order, whatever the outcome of each call.
C2_TeardownDeletesEachEntryOnce ==
  /\ teardownRuns <= 1
  /\ (pc[Main] = "returned" /\ OpenSucceeded) => teardownRuns = 1
  /\ ~OpenSucceeded => teardownRuns = 0
  /\ pc[Main] = "tdLoop" => (tdRange = registered /\ Len(deleteLog) = tdIdx - 1)
  /\ (teardownRuns = 1 /\ pc[Main] \in {"close", "returned"}) =>
        Len(deleteLog) = Len(tdRange)
  /\ Len(deleteLog) <= Len(tdRange)
  /\ \A i \in 1..Len(deleteLog) :
        /\ deleteLog[i].user = BotUser
        /\ deleteLog[i].guild = tdRange[i].guild
        /\ deleteLog[i].id = tdRange[i].id

C2_Witness ==
  /\ pc[Main] = "returned"
  /\ Len(deleteLog) = 3
  /\ ~deleteLog[1].ok
  /\ deleteLog[2].ok
  /\ deleteLog[1].guild # deleteLog[3].guild

\* C3: while teardown holds the ledger mutex the ledger is exactly the
\* successful create calls made so far, one entry each, in call order; a
\* failed create has no entry.
C3_LedgerIsSuccessfulCreates ==
  registeredm = Main =>
     /\ Len(registered) = Len(OkCreates)
     /\ \A i \in 1..Len(registered) :
           /\ registered[i].id = OkCreates[i].id
           /\ registered[i].guild = OkCreates[i].guild
           /\ registered[i].name = OkCreates[i].name
     /\ \A id \in CreatedIds : LedgerCount(id) = 1

C3_Witness ==
  /\ pc[Main] = "returned"
  /\ hguild[1] # hguild[2]
  /\ Len(registered) = 4
  /\ Len(deleteLog) = 4
  /\ Len(createLog) = 4

\* C4: a handler invocation that has returned issued one create call per
\* desired command, in order, whether or not earlier ones failed; exactly its
\* successful calls have a ledger entry; and a failed create leaves the
\* result of a Run that opened the connection nil.
C4_FailedCreateDoesNotAbort ==
  /\ \A e \in Events :
        hpc[e] = "done" =>
           /\ Len(CallsOf(e)) = Len(Commands.items)
           /\ \A i \in 1..Len(CallsOf(e)) :
                 /\ CallsOf(e)[i].name = Commands.items[i]
                 /\ CallsOf(e)[i].guild = hguild[e]
                 /\ CallsOf(e)[i].ok => LedgerCount(CallsOf(e)[i].id) = 1
  /\ Len(registered) <= Len(OkCreates)
  /\ (pc[Main] = "returned" /\ OpenSucceeded) => result = "nil"

C4_Witness ==
  /\ AllHandlersDone
  /\ evCount = 2
  /\ Len(createLog) = 4
  /\ createLog[1].inv = 1
  /\ ~createLog[1].ok
  /\ createLog[2].ok
  /\ createLog[3].ok
  /\ createLog[4].ok
  /\ Len(registered) = 3
  /\ pc[Main] = "returned"

\* C5: the function passed to once.Do runs at most once, and every pair a
\* caller of Session or Run reads is the pair that one execution left: read
\* after it completed, never (nil, nil).
C5_InitOnceSamePair ==
  /\ initRuns <= 1
  /\ observed \subseteq { << session, err >> }
  /\ observed # {} => (once.done /\ initRuns = 1)
  /\ \A o \in observed : o[1].valid <=> (o[2] = "nil")

C5_Witness ==
  /\ observed # {}
  /\ pc[Main] = "addReady"
  /\ \E c \in Callers : pc[c] = "ret"

\* C6: with the variable unset Run returns ErrNoToken and has installed no
\* handler, called neither Open nor Close, run no teardown and issued no
\* create or delete call.
C6_NoTokenShortCircuits ==
  ~env.set =>
     /\ handlers = {}
     /\ openCalls = 0
     /\ closeCalls = 0
     /\ teardownRuns = 0
     /\ ~connOpen
     /\ createLog = <<>>
     /\ deleteLog = <<>>
     /\ pc[Main] \in {"once", "lookup", "check", "returned"}
     /\ pc[Main] = "returned" => result = "ErrNoToken"

C6_Witness == ~env.set /\ pc[Main] = "returned" /\ result = "ErrNoToken"

\* t is v without its leading and trailing spaces.
IsTrimOf(t, v) ==
  /\ t = <<>> \/ (t[1] # " " /\ t[Len(t)] # " ")
  /\ \E i \in 0..Len(v) :
        /\ i + Len(t) <= Len(v)
        /\ SubSeq(v, i + 1, i + Len(t)) = t
        /\ \A k \in 1..Len(v) : (k <= i \/ k > i + Len(t)) => v[k] = " "

\* C7 (as claimed): initialization fails with ErrNoToken when the variable is
\* absent and when it is present but empty, and then no session is
\* constructed and no connection opened.
C7_AbsentOrEmptyIsErrNoToken ==
  (once.done /\ (~env.set \/ env.val = <<>>)) =>
     /\ err = "ErrNoToken"
     /\ session = NilSession
     /\ openCalls = 0

\* C7 (amended): initialization fails with ErrNoToken exactly when the
\* variable is absent; when it is present, empty or not, the session is
\* constructed from "Bot " and the trimmed value unless construction fails.
C7_OnlyAbsentIsErrNoToken ==
  once.done =>
     /\ (err = "ErrNoToken") <=> ~env.set
     /\ ~env.set => (session = NilSession /\ openCalls = 0)
     /\ (env.set /\ err = "nil") =>
           /\ session.valid
           /\ Len(session.token) >= 4
           /\ SubSeq(session.token, 1, 4) = <<"B", "o", "t", " ">>
           /\ IsTrimOf(SubSeq(session.token, 5, Len(session.token)), env.val)
     /\ (env.set /\ err # "nil") =>
           (err = "ErrCreateSession" /\ session = NilSession)

C7_Witness ==
  /\ env.set
  /\ env.val = <<>>
  /\ session.valid
  /\ session.token = <<"B", "o", "t", " ">>
  /\ openCalls = 1

\* C8: Run leaves its wait only when the context is cancelled; a Run that
\* reached the wait returns nil whatever the create, delete and close calls
\* did; a non-nil result means Run failed before the wait.
C8_RunResult ==
  /\ pc[Main] \in {"tdUser", "tdRUnlock", "tdLock", "tdLoop", "close"} => cancelled
  /\ (pc[Main] = "returned" /\ OpenSucceeded) => (result = "nil" /\ cancelled)
  /\ result = "nil" => (pc[Main] = "returned" /\ OpenSucceeded)
  /\ result \notin {"none", "nil"} =>
        /\ pc[Main] = "returned"
        /\ ~OpenSucceeded
        /\ result \in {"ErrNoToken", "ErrCreateSession", "ErrOpen"}
  /\ pc[Main] = "returned" <=> result # "none"

C8_Witness ==
  /\ pc[Main] = "returned"
  /\ result = "nil"
  /\ \E i \in 1..Len(createLog) : ~createLog[i].ok
  /\ \E i \in 1..Len(deleteLog) : ~deleteLog[i].ok

\* C9: every stage of teardown runs with the connection open and Close not
\* yet called; Close is called at most once, only when the teardown loop has
\* attempted every entry and released the mutex, and once on a Run that
\* opened the connection.
C9_DrainBeforeClose ==
  /\ closeCalls <= 1
  /\ pc[Main] \in {"tdUser", "tdRUnlock", "tdLock", "tdLoop"} => (connOpen /\ closeCalls = 0)
  /\ closeCalls = 1 =>
        /\ teardownRuns = 1
        /\ Len(deleteLog) = Len(tdRange)
        /\ registeredm # Main
        /\ pc[Main] = "returned"
  /\ (pc[Main] = "returned" /\ OpenSucceeded) => (closeCalls = 1 /\ ~connOpen)
  /\ ~OpenSucceeded => closeCalls = 0

C9_Witness ==
  /\ closeCalls = 1
  /\ Len(deleteLog) = 2
  /\ ~deleteLog[2].ok

\* C10: a panic of a callback installed through AddHandler is recovered by
\* the wrapper: it never leaves the wrapper, the process stays alive, only
\* installed wrappers are invoked, another event can still be delivered, and
\* Run leaves its wait only on cancellation.
C10_PanicIsContained ==
  /\ ~crashed
  /\ \A v \in UserEvents, u \in UserHandlers :
        /\ upc[v][u] # "propagated"
        /\ upc[v][u] # "none" => (v <= uevCount /\ u \in wrapped)
  /\ (connOpen /\ wrapped # {} /\ uevCount < MaxUserEvents) => ENABLED DeliverUser
  /\ pc[Main] \in {"tdUser", "tdRUnlock", "tdLock", "tdLoop", "close", "returned"} =>
        (cancelled \/ ~OpenSucceeded)

C10_Witness ==
  /\ upc[1] = [u \in UserHandlers |-> IF u = 2 THEN "recovered" ELSE "done"]
  /\ upc[2] = [u \in UserHandlers |-> "done"]
  /\ pc[Main] = "wait"
  /\ ~cancelled

\* C11 (as claimed): a fault inside a handler that Run installed is confined
\* to that invocation: the process stays alive, so the run loop goes on, and
\* the ledger mutex is released.
C11_RunHandlerFaultIsolated ==
  \A e \in Events : hpc[e] = "panicked" => (~crashed /\ registeredm # e)

\* Two entries of the ledger for the same guild and command name.
DuplicateEntries ==
  \E i, j \in 1..Len(registered) :
     /\ i < j
     /\ registered[i].guild = registered[j].guild
     /\ registered[i].name = registered[j].name

\* C12 (as claimed): whatever guild-join events arrive, the ledger holds at
\* most one entry per guild and command, and teardown issues at most one
\* delete call per guild and command identifier.
C12_RegistrationIdempotent ==
  /\ ~DuplicateEntries
  /\ \A i, j \in 1..Len(deleteLog) :
        (deleteLog[i].guild = deleteLog[j].guild /\ deleteLog[i].id = deleteLog[j].id)
           => i = j

\* C13: the callback of a wrapper invocation runs with a context derived from
\* the one given at installation; that context is cancelled once the wrapper
\* has run its deferred calls, after a return and after a panic alike; it is
\* cancelled whenever the parent is; and no step of a wrapper cancels the
\* parent.
C13_DerivedContext ==
  /\ [](\A v \in UserEvents, u \in UserHandlers :
          /\ upc[v][u] \in {"none", "start"} => uctx[v][u] = "none"
          /\ upc[v][u] \in {"returned", "panicking"} => uctx[v][u] # "none"
          /\ upc[v][u] \in {"done", "recovered", "propagated"} =>
                uctx[v][u] = "cancelled"
          /\ cancelled => uctx[v][u] # "live")
  /\ [][upc' # upc => cancelled' = cancelled]_vars

C13_Witness ==
  /\ ~cancelled
  /\ upc[1][1] = "recovered"
  /\ uctx[1][1] = "cancelled"
  /\ upc[1][2] = "done"
  /\ uctx[1][2] = "cancelled"
  /\ upc[1][3] = "returned"
  /\ uctx[1][3] = "live"

\* Run has left its wait: it has observed the cancellation.
RunObservedCancel ==
  OpenSucceeded /\ pc[Main] \in {"tdUser", "tdRUnlock", "tdLock", "tdLoop", "close", "returned"}

\* This step is the first create call of invocation e.
FirstCreate(e) ==
  /\ hpc[e] = "create"
  /\ hidx[e] = 1
  /\ Len(createLog') = Len(createLog) + 1
  /\ createLog'[Len(createLog')].inv = e

\* C14 (as claimed): once Run has observed the cancellation no handler
\* invocation issues its first create call, and once teardown has taken the
\* ledger no create call is issued at all.
C14_NoCreateAfterCancellation ==
  /\ [][RunObservedCancel => \A e \in Events : ~FirstCreate(e)]_vars
  /\ [][tdIdx >= 1 => createLog' = createLog]_vars

\* The tasks inside a critical section of the ledger mutex.
InLedgerSection ==
  { e \in Events : hpc[e] \in {"range", "create", "append", "unlock"} } \cup
  (IF pc[Main] = "tdLoop" THEN {Main} ELSE {})

\* The invocation that made the successful create call with identifier id.
InvOf(id) ==
  createLog[CHOOSE i \in 1..Len(createLog) : createLog[i].ok /\ createLog[i].id = id].inv

\* The position of a command name in bot.Commands.
PosOf(name) ==
  CHOOSE k \in 1..Len(Commands.items) : Commands.items[k] = name

\* C15: at most one task is inside a critical section of the ledger mutex,
\* and it is the mutex's owner; so the create calls of one invocation are
\* consecutive among all create calls, its ledger entries are consecutive in
\* the ledger and in desired-command order, and teardown issues delete calls
\* only while no invocation is inside its batch.
C15_LedgerMutualExclusion ==
  /\ Cardinality(InLedgerSection) <= 1
  /\ \A t \in InLedgerSection : registeredm = t
  /\ registeredm # NoOwner => registeredm \in InLedgerSection
  /\ \A i, j, k \in 1..Len(createLog) :
        (i < j /\ j < k /\ createLog[i].inv = createLog[k].inv) =>
           createLog[j].inv = createLog[i].inv
  /\ \A i, j, k \in 1..Len(registered) :
        (i < j /\ j < k /\ InvOf(registered[i].id) = InvOf(registered[k].id)) =>
           InvOf(registered[j].id) = InvOf(registered[i].id)
  /\ \A i, j \in 1..Len(registered) :
        (i < j /\ InvOf(registered[i].id) = InvOf(registered[j].id)) =>
           PosOf(registered[i].name) < PosOf(registered[j].name)

C15_Witness ==
  /\ registeredm = 1
  /\ hpc[1] = "create"
  /\ hidx[1] = 2
  /\ hpc[2] = "lock"
  /\ pc[Main] = "tdLock"

\* C16: Run installs both handlers before it calls Open, has opened the
\* connection when it blocks, and runs teardown and then Close only after
\* the cancellation; so whenever the connection is open the guild-join
\* handler is installed.
C16_HandlersBeforeOpen ==
  /\ connOpen => {"Ready", "GuildCreate"} \subseteq handlers
  /\ openCalls > 0 => {"Ready", "GuildCreate"} \subseteq handlers
  /\ pc[Main] = "wait" => (OpenSucceeded /\ connOpen)
  /\ (teardownRuns > 0 \/ closeCalls > 0) => cancelled
  /\ closeCalls > 0 => (teardownRuns = 1 /\ pc[Main] = "returned")

C16_Witness ==
  /\ connOpen
  /\ pc[Main] = "wait"
  /\ ~cancelled
  /\ hpc[1] = "start"

\* Run has returned from a failed dg.Open.
OpenFailedReturned ==
  pc[Main] = "returned" /\ openCalls = 1 /\ ~OpenSucceeded

\* C17 (as claimed): after a failed Open, Run has returned the wrapped open
\* error, issued no create or delete call, run no teardown, and closed the
\* partially opened connection.
C17_FailedOpenCloses ==
  OpenFailedReturned =>
     /\ result = "ErrOpen"
     /\ createLog = <<>>
     /\ deleteLog = <<>>
     /\ teardownRuns = 0
     /\ closeCalls = 1

\* C17 (amended): after a failed Open, Run has returned the wrapped open
\* error, issued no create or delete call, run no teardown and not called
\* Close: Close is deferred only after a successful Open.
C17_FailedOpenReturnsAtOnce ==
  /\ OpenFailedReturned =>
        /\ result = "ErrOpen"
        /\ createLog = <<>>
        /\ deleteLog = <<>>
        /\ teardownRuns = 0
        /\ closeCalls = 0
        /\ evCount = 0
  /\ closeCalls > 0 => OpenSucceeded

C17_Witness == OpenFailedReturned /\ result = "ErrOpen" /\ cancelled

\* The tasks that hold or are requesting the ledger mutex registeredm.
AtLedgerLock ==
  { e \in Events : hpc[e] \in {"lock", "range", "create", "append", "unlock"} }
    \cup (IF pc[Main] \in {"tdLock", "tdLoop"} THEN {Main} ELSE {})

\* C18: userID is read while the task holds dg.State's read lock, the read
\* lock is released before registeredm is requested, and no task holds both
\* locks at once, in the GuildCreate handler and in teardown.
C18_StateLockReleasedFirst ==
  /\ [](/\ stateR \cap AtLedgerLock = {}
        /\ \A t \in stateR : registeredm # t
        /\ \A e \in Events : (e \in stateR) <=> (hpc[e] = "rUnlock")
        /\ (Main \in stateR) <=> (pc[Main] = "tdRUnlock"))
  /\ [][/\ \A e \in Events :
             (hpc[e] = "start" /\ hpc'[e] # "start") =>
                (e \in stateR' /\ huser'[e] = stateUser)
        /\ (pc[Main] = "tdUser" /\ pc'[Main] # "tdUser") =>
                (Main \in stateR' /\ tdUser' = stateUser)
        /\ \A e \in Events :
             (registeredm # e /\ registeredm' = e) => e \notin stateR
        /\ (registeredm # Main /\ registeredm' = Main) => Main \notin stateR]_vars

\* A handler owns the ledger mutex while teardown holds the read lock and
\* another handler has released it and waits for the ledger mutex.
C18_Witness ==
  /\ registeredm = 1
  /\ hpc[1] = "create"
  /\ hpc[2] = "lock"
  /\ stateR = {Main}
  /\ huser[2] = BotUser

\* The ids of the successful create calls of the Setup variant.
SCreatedIds ==
  { sCreateLog[i].id : i \in { j \in 1..Len(sCreateLog) : sCreateLog[j].ok } }

SDeleteCount(id) ==
  Cardinality({ i \in 1..Len(sDeleteLog) : sDeleteLog[i].id = id })

\* C19: in the Setup variant, once Run has returned after a successful open,
\* every command RegisterCommands created has received one delete call and
\* the connection was closed after them, also when RegisterCommands
\* returned an error after some creates had succeeded.
C19_SetupUnregistersOnEveryExit ==
  (spc = "returned" /\ sdgCloses > 0) =>
     \A id \in SCreatedIds : SDeleteCount(id) = 1

\* C20: once the context is cancelled while Run waits, teardown gets the
\* ledger mutex, goes through every entry, the connection is closed and Run
\* returns, given that calls return and the mutex is fair.
C20_ShutdownCompletes ==
  (cancelled /\ pc[Main] = "wait") ~>
     (pc[Main] = "returned" /\ closeCalls = 1 /\ tdIdx > Len(tdRange))

====
